---- MODULE Spec2Model ----
(***************************************************************************)
(* Model of src/lib/open_library_api.py: the Search client of the Open     *)
(* Library search API and the interactive loop of the script.              *)
(*                                                                         *)
(* A Python str is a sequence of one-character strings; the literals of    *)
(* the source (BASE_URL, "?title=", a field name, a message) are kept as   *)
(* one element each, and an f-string is the concatenation of its parts.    *)
(* An optional argument is a record [given, val]: given = FALSE is None.   *)
(***************************************************************************)
EXTENDS Integers, Sequences, FiniteSets, TLC

\* ------------------------------------------------------------- bounds
MaxTitleLen == 2
MaxFields == 2
MaxLimit == 1
MaxAuthors == 2
MaxDocs == 2
MaxPad == 1

\* ------------------------------------------------------------- inputs
RECURSIVE SeqsUpTo(_, _)
SeqsUpTo(S, n) ==
    IF n = 0 THEN {<<>>}
    ELSE LET shorter == SeqsUpTo(S, n - 1)
         IN  shorter \cup {Append(s, x) : s \in shorter, x \in S}

\* Characters a title is made of: a letter, the space, another whitespace
\* character and a character that is special in a query string.
TitleChars == {"a", " ", "\t", "&"}
Whitespace == {" ", "\t"}
Titles == SeqsUpTo(TitleChars, MaxTitleLen)

\* An element of a fields list: a str, or NonStr for an object that is not
\* a str (an int, None).
NonStr == "<not a str>"
FieldItems == {"title", "isbn", NonStr}
FieldsArgs ==
    {[given |-> FALSE, val |-> <<>>]}
        \cup {[given |-> TRUE, val |-> f] : f \in SeqsUpTo(FieldItems, MaxFields)}
LimitArgs ==
    {[given |-> FALSE, val |-> 0]}
        \cup {[given |-> TRUE, val |-> n] : n \in (-1 .. MaxLimit) \cup {25}}
NotGiven == [given |-> FALSE, val |-> <<>>]
NoLimit == [given |-> FALSE, val |-> 0]

\* ------------------------------------------------------ class Search
BASE_URL == "https://openlibrary.org/search.json"

VARIABLES
    DEFAULT_FIELDS,  \* the class attribute Search.DEFAULT_FIELDS (a list)
    DEFAULT_LIMIT,   \* the class attribute Search.DEFAULT_LIMIT
    op,              \* the operation called last ("" before the first call)
    search_term,     \* its arguments
    fields,
    limit,
    http,            \* what the HTTP GET of the call met (NoHttp: no GET)
    raised,          \* the exception that left the call ("" when it returned)
    ret,             \* the value the call returned
    sent,            \* the URLs the call passed to session.get
    stdout,          \* what the call printed
    pc,              \* "idle", "returned"; the script: "start", "banner", "loop_top",
                     \* "prompt", "done", "EOFError"
    line             \* the script: the line input() returned last

vars == <<DEFAULT_FIELDS, DEFAULT_LIMIT, op, search_term, fields, limit, http,
          raised, ret, sent, stdout, pc, line>>

\* Faulty variant: str.replace(" ", "+", 1), the first occurrence only.
RECURSIVE replace_first_space(_)
replace_first_space(s) ==
    IF s = <<>> THEN <<>>
    ELSE IF Head(s) = " " THEN <<"+">> \o Tail(s)
    ELSE <<Head(s)>> \o replace_first_space(Tail(s))

\* str.replace(" ", "+"): every occurrence, left to right.
RECURSIVE replace_spaces(_)
replace_spaces(s) ==
    IF s = <<>> THEN <<>>
    ELSE <<IF Head(s) = " " THEN "+" ELSE Head(s)>> \o replace_spaces(Tail(s))

\* ",".join(fields): TypeError when an item is not a str.
RECURSIVE join(_)
join(f) ==
    IF f = <<>> THEN <<>>
    ELSE IF Len(f) = 1 THEN <<f[1]>>
    ELSE <<f[1], ",">> \o join(Tail(f))

join_raises(f) == \E i \in 1 .. Len(f) : f[i] = NonStr

\* The decimal digits of str(n), as format() writes an int.
Digit == <<"0", "1", "2", "3", "4", "5", "6", "7", "8", "9">>
RECURSIVE int_to_str(_)
int_to_str(n) ==
    IF n < 0 THEN <<"-">> \o int_to_str(-n)
    ELSE IF n < 10 THEN <<Digit[n + 1]>>
    ELSE int_to_str(n \div 10) \o <<Digit[(n % 10) + 1]>>

\* Faulty variant: `fields if fields is not None else self.DEFAULT_FIELDS`.
fields_if_not_none(f, dflt) == IF f.given THEN f.val ELSE dflt

\* `fields or self.DEFAULT_FIELDS`: None and the empty list are falsy.
fields_or_default(f, dflt) == IF f.given /\ f.val # <<>> THEN f.val ELSE dflt

\* Faulty variant: the limit as passed, with no default.
limit_as_passed(l, dflt) == l.val

\* `limit or self.DEFAULT_LIMIT`: None and 0 are falsy.
limit_or_default(l, dflt) == IF l.given /\ l.val # 0 THEN l.val ELSE dflt

\* Search._build_url: [raised, url].
build_url(term, f, l, dfields, dlimit) ==
    LET search_term_formatted == replace_spaces(term)
        fs == fields_or_default(f, dfields)
        lim == limit_or_default(l, dlimit)
    IN  IF join_raises(fs)
        THEN [raised |-> "TypeError", url |-> <<>>]
        ELSE [raised |-> "",
              url |-> <<BASE_URL, "?title=">> \o search_term_formatted
                          \o <<"&fields=">> \o join(fs)
                          \o <<"&limit=">> \o int_to_str(lim)]

\* ------------------------------------------------- the HTTP exchange
\* A decoded JSON value is a record [kind, has_docs, docs]: kind "dict" is
\* a JSON object, with or without the key "docs"; kind "list" is a JSON
\* value that is no object. An element of docs is a record [kind, has_title,
\* title, has_author_name, author_name]: kind "dict" is an object with the
\* two keys present or not, kind "str" is an element that is no object.
Authors == {"Frank Herbert", "Other"}
AuthorLists ==
    {<<>>} \cup {<<a>> \o rest : a \in Authors,
                                 rest \in SeqsUpTo({"Other"}, MaxAuthors - 1)}
Document(ht, t, ha, a) ==
    [kind |-> "dict", has_title |-> ht, title |-> t,
     has_author_name |-> ha, author_name |-> a]
NotADict == [kind |-> "str", has_title |-> FALSE, title |-> "",
             has_author_name |-> FALSE, author_name |-> <<>>]
FirstDocs ==
    {NotADict}
        \cup {Document(FALSE, "", FALSE, <<>>), Document(TRUE, "Dune", FALSE, <<>>)}
        \cup {Document(FALSE, "", TRUE, a) : a \in AuthorLists}
        \cup {Document(TRUE, "Dune", TRUE, a) : a \in AuthorLists}
LaterDocs == {Document(TRUE, "Emma", TRUE, <<"Jane Austen">>)}
DocLists ==
    {<<>>} \cup {<<d>> \o rest : d \in FirstDocs,
                                 rest \in SeqsUpTo(LaterDocs, MaxDocs - 1)}
EmptyDict == [kind |-> "dict", has_docs |-> FALSE, docs |-> <<>>]
JsonValues ==
    {EmptyDict, [kind |-> "list", has_docs |-> FALSE, docs |-> <<>>]}
        \cup {[kind |-> "dict", has_docs |-> TRUE, docs |-> d] : d \in DocLists}

\* A response body: no bytes at all, bytes that are not JSON, or the bytes
\* of a JSON value.
EmptyBytes == [text |-> "empty", json |-> EmptyDict]
Garbage == [text |-> "garbage", json |-> EmptyDict]
Bodies == {EmptyBytes, Garbage} \cup {[text |-> "json", json |-> j] : j \in JsonValues}

SampleBody ==
    [text |-> "json",
     json |-> [kind |-> "dict", has_docs |-> TRUE,
               docs |-> <<Document(TRUE, "Dune", TRUE, <<"Frank Herbert">>)>>]]

\* What session.get(url) meets: an exception of the transport, or a
\* response with a status and a body.
NoHttp == [error |-> "", status |-> 0, body |-> EmptyBytes]
HttpOutcomes ==
    {[error |-> e, status |-> 0, body |-> EmptyBytes] : e \in {"ConnectionError", "Timeout"}}
        \cup {[error |-> "", status |-> s, body |-> b] :
                  s \in {404, 500}, b \in {EmptyBytes, Garbage, SampleBody}}
        \cup {[error |-> "", status |-> 200, body |-> b] : b \in Bodies}

\* Faulty variant: only a server error raises.
raise_for_5xx(status) ==
    IF status >= 500 /\ status < 600 THEN "HTTPError" ELSE ""

\* Response.raise_for_status(): HTTPError for a 4xx or 5xx status.
raise_for_status(status) ==
    IF status >= 400 /\ status < 600 THEN "HTTPError" ELSE ""

\* Response.json(): [raised, value]. requests raises its own JSONDecodeError
\* (requests.exceptions, a RequestException) for a body that is not JSON.
response_json(body) ==
    IF body.text = "json"
    THEN [raised |-> "", value |-> body.json]
    ELSE [raised |-> "JSONDecodeError", value |-> EmptyDict]

\* Faulty variant: an except clause that names the transport's exceptions only.
IsTransportException(e) == e \in {"ConnectionError", "Timeout", "HTTPError"}

\* The classes `except requests.exceptions.RequestException` catches.
IsRequestException(e) ==
    e \in {"ConnectionError", "Timeout", "HTTPError", "JSONDecodeError"}

\* Faulty variant: `except requests.exceptions.RequestException` at line 84 too.
IsRequestExceptionOnly(e) ==
    e \in {"ConnectionError", "Timeout", "HTTPError", "JSONDecodeError"}

\* The classes `except Exception` catches: every exception the model raises.
IsException(e) == e # ""

\* session.get(url) then raise_for_status(): the exception raised, or "".
get_checked(h) ==
    IF h.error # "" THEN h.error ELSE raise_for_status(h.status)

\* The result of a call: the exception that left it, the value returned,
\* the URLs requested and the lines printed.
Result(e, v, urls, out) == [raised |-> e, ret |-> v, sent |-> urls, stdout |-> out]

\* Search.get_search_results
get_search_results(term, h, dfields, dlimit) ==
    LET b == build_url(term, NotGiven, NoLimit, dfields, dlimit)
        e == IF b.raised # "" THEN b.raised ELSE get_checked(h)
        urls == IF b.raised = "" THEN <<b.url>> ELSE <<>>
    IN  IF e = "" THEN Result("", h.body, urls, <<>>)
        ELSE IF IsRequestException(e)
        THEN Result("", EmptyBytes, urls, <<<<"Error making request: ", e>>>>)
        ELSE Result(e, EmptyBytes, urls, <<>>)

\* Search.get_search_results_json
get_search_results_json(term, f, l, h, dfields, dlimit) ==
    LET b == build_url(term, f, l, dfields, dlimit)
        urls == IF b.raised = "" THEN <<b.url>> ELSE <<>>
        out == IF b.raised = "" THEN <<<<"Request URL: ">> \o b.url>> ELSE <<>>
        g == IF b.raised # "" THEN b.raised ELSE get_checked(h)
        j == response_json(h.body)
        e == IF g # "" THEN g ELSE j.raised
    IN  IF e = "" THEN Result("", j.value, urls, out)
        ELSE IF IsRequestException(e)
        THEN Result("", EmptyDict, urls, Append(out, <<"Error making request: ", e>>))
        ELSE Result(e, EmptyDict, urls, out)

NoResults == <<"No results found.">>
ProcessingError == <<"An error occurred while processing your request.">>

\* Faulty variant: `'docs' not in response`.
docs_missing(response) == ~response.has_docs

\* `not response.get('docs')`: the key is absent or its list is empty.
docs_falsy(response) == ~response.has_docs \/ response.docs = <<>>

\* Faulty variant: `[-1]`, the last entry.
last_entry(names) == names[Len(names)]

\* `[0]` of a non-empty list.
first_entry(names) == names[1]

\* dict.get / subscripting in get_user_search_results, lines 76 to 83:
\* [raised, value], the exception of the first step that fails.
format_first(response) ==
    IF response.kind # "dict"
    THEN [raised |-> "AttributeError", value |-> <<>>]   \* response.get
    ELSE IF docs_falsy(response)
    THEN [raised |-> "", value |-> NoResults]
    ELSE IF response.docs = <<>>
    THEN [raised |-> "IndexError", value |-> <<>>]   \* response['docs'][0]
    ELSE LET book == first_entry(response.docs)
         IN  IF book.kind # "dict"
             THEN [raised |-> "AttributeError", value |-> <<>>]   \* book.get
             ELSE LET title == IF book.has_title THEN book.title ELSE "Unknown Title"
                      names == IF book.has_author_name THEN book.author_name
                               ELSE <<"Unknown Author">>
                  IN  IF names = <<>>
                      THEN [raised |-> "IndexError", value |-> <<>>]   \* [...][0]
                      ELSE [raised |-> "",
                            value |-> <<"Title: ", title, "\nAuthor: ",
                                        first_entry(names)>>]

\* Search.get_user_search_results
get_user_search_results(term, h, dfields, dlimit) ==
    LET r == get_search_results_json(term, NotGiven, NoLimit, h, dfields, dlimit)
        x == IF r.raised # "" THEN [raised |-> r.raised, value |-> <<>>]
             ELSE format_first(r.ret)
    IN  IF x.raised = "" THEN Result("", x.value, r.sent, r.stdout)
        ELSE IF IsException(x.raised)
        THEN Result("", ProcessingError, r.sent,
                    Append(r.stdout, <<"Error processing results: ", x.raised>>))
        ELSE Result(x.raised, <<>>, r.sent, r.stdout)

\* ------------------------------------------------ calls of the client
Init ==
    /\ DEFAULT_FIELDS = <<"title", "author_name">>
    /\ DEFAULT_LIMIT = 1
    /\ op = ""
    /\ search_term = <<>>
    /\ fields = NotGiven
    /\ limit = NoLimit
    /\ http = NoHttp
    /\ raised = ""
    /\ ret = <<>>
    /\ sent = <<>>
    /\ stdout = <<>>
    /\ pc = "idle"
    /\ line = <<>>

Returns(r) ==
    /\ raised' = r.raised
    /\ ret' = r.ret
    /\ sent' = r.sent
    /\ stdout' = r.stdout

Call_build_url ==
    /\ pc = "idle"
    /\ \E t \in Titles, f \in FieldsArgs, l \in LimitArgs :
            LET b == build_url(t, f, l, DEFAULT_FIELDS, DEFAULT_LIMIT)
            IN  /\ op' = "_build_url"
                /\ search_term' = t
                /\ fields' = f
                /\ limit' = l
                /\ http' = NoHttp
                /\ Returns(Result(b.raised, b.url, <<>>, <<>>))
                /\ pc' = "returned"
                /\ UNCHANGED <<DEFAULT_FIELDS, DEFAULT_LIMIT, line>>

Call_get_search_results ==
    /\ pc = "idle"
    /\ \E t \in Titles, h \in HttpOutcomes :
            /\ op' = "get_search_results"
            /\ search_term' = t
            /\ fields' = NotGiven
            /\ limit' = NoLimit
            /\ http' = h
            /\ Returns(get_search_results(t, h, DEFAULT_FIELDS, DEFAULT_LIMIT))
            /\ pc' = "returned"
            /\ UNCHANGED <<DEFAULT_FIELDS, DEFAULT_LIMIT, line>>

Call_get_search_results_json ==
    /\ pc = "idle"
    /\ \E t \in Titles, f \in FieldsArgs, l \in LimitArgs, h \in HttpOutcomes :
            /\ op' = "get_search_results_json"
            /\ search_term' = t
            /\ fields' = f
            /\ limit' = l
            /\ LET r == get_search_results_json(t, f, l, h, DEFAULT_FIELDS, DEFAULT_LIMIT)
               IN  /\ http' = (IF r.sent = <<>> THEN NoHttp ELSE h)
                   /\ Returns(r)
            /\ pc' = "returned"
            /\ UNCHANGED <<DEFAULT_FIELDS, DEFAULT_LIMIT, line>>

Call_get_user_search_results ==
    /\ pc = "idle"
    /\ \E t \in Titles, h \in HttpOutcomes :
            /\ op' = "get_user_search_results"
            /\ search_term' = t
            /\ fields' = NotGiven
            /\ limit' = NoLimit
            /\ http' = h
            /\ Returns(get_user_search_results(t, h, DEFAULT_FIELDS, DEFAULT_LIMIT))
            /\ pc' = "returned"
            /\ UNCHANGED <<DEFAULT_FIELDS, DEFAULT_LIMIT, line>>

\* The caller drops the result; the client keeps nothing of the call.
Discard ==
    /\ pc = "returned"
    /\ pc' = "idle"
    /\ op' = ""
    /\ search_term' = <<>>
    /\ fields' = NotGiven
    /\ limit' = NoLimit
    /\ http' = NoHttp
    /\ Returns(Result("", <<>>, <<>>, <<>>))
    /\ UNCHANGED <<DEFAULT_FIELDS, DEFAULT_LIMIT, line>>

Next ==
    \/ Call_build_url
    \/ Call_get_search_results
    \/ Call_get_search_results_json
    \/ Call_get_user_search_results
    \/ Discard

Spec == Init /\ [][Next]_vars

\* ------------------------------------------------------- the script
\* An input line: a word with whitespace before and after it. The words
\* are "quit" in every letter case, words near it and a title.
QuitCases ==
    {<<q, u, i, t>> : q \in {"q", "Q"}, u \in {"u", "U"}, i \in {"i", "I"}, t \in {"t", "T"}}
Words ==
    QuitCases \cup {<<>>, <<"a">>, <<"q", "u", "i">>, <<"q", "u", "i", "t", "s">>,
                    <<"q", "u", " ", "i", "t">>}
Pads == SeqsUpTo(Whitespace, MaxPad)
Lines == {before \o w \o after : before \in Pads, w \in Words, after \in Pads}

\* str.lower()
lower_char(c) ==
    CASE c = "Q" -> "q"
      [] c = "U" -> "u"
      [] c = "I" -> "i"
      [] c = "T" -> "t"
      [] OTHER -> c
lower(s) == [i \in 1 .. Len(s) |-> lower_char(s[i])]

\* str.strip(): leading and trailing whitespace removed.
RECURSIVE lstrip(_)
lstrip(s) ==
    IF s # <<>> /\ Head(s) \in Whitespace THEN lstrip(Tail(s)) ELSE s
RECURSIVE rstrip(_)
rstrip(s) ==
    IF s # <<>> /\ s[Len(s)] \in Whitespace
    THEN rstrip(SubSeq(s, 1, Len(s) - 1)) ELSE s
strip(s) == lstrip(rstrip(s))

Banner == <<<<"Open Library Book Search">>, <<"-----------------------">>>>
Prompt == "\nEnter a book title (or 'quit' to exit): "
ValidationMessage == "Please enter a valid book title."

\* Faulty variant: `search_term == 'quit'`.
is_quit_exact(s) == s = <<"q", "u", "i", "t">>

\* `search_term.lower() == 'quit'` and `not search_term.strip()`
is_quit(s) == lower(s) = <<"q", "u", "i", "t">>
is_blank(s) == strip(s) = <<>>

InitMain ==
    /\ DEFAULT_FIELDS = <<"title", "author_name">>
    /\ DEFAULT_LIMIT = 1
    /\ op = ""
    /\ search_term = <<>>
    /\ fields = NotGiven
    /\ limit = NoLimit
    /\ http = NoHttp
    /\ raised = ""
    /\ ret = <<>>
    /\ sent = <<>>
    /\ stdout = <<>>
    /\ pc = "start"
    /\ line = <<>>

\* No call of the client in this step of the script.
NoCall(out) ==
    /\ op' = ""
    /\ search_term' = <<>>
    /\ http' = NoHttp
    /\ Returns(Result("", <<>>, <<>>, out))

\* search = Search() and the two lines of the banner.
MainStart ==
    /\ pc = "start"
    /\ pc' = "banner"
    /\ NoCall(Banner)
    /\ UNCHANGED <<DEFAULT_FIELDS, DEFAULT_LIMIT, fields, limit, line>>

\* The top of `while True`: input() writes the prompt and waits for a line.
MainPrompt ==
    /\ pc \in {"banner", "loop_top"}
    /\ pc' = "prompt"
    /\ line' = <<>>
    /\ NoCall(<<<<Prompt>>>>)
    /\ UNCHANGED <<DEFAULT_FIELDS, DEFAULT_LIMIT, fields, limit>>

\* The line read is "quit": break.
MainQuit ==
    /\ pc = "prompt"
    /\ \E ln \in Lines :
            /\ is_quit(ln)
            /\ line' = ln
            /\ pc' = "done"
            /\ NoCall(<<>>)
            /\ UNCHANGED <<DEFAULT_FIELDS, DEFAULT_LIMIT, fields, limit>>

\* The line read is empty or whitespace only: continue.
MainBlank ==
    /\ pc = "prompt"
    /\ \E ln \in Lines :
            /\ ~is_quit(ln)
            /\ is_blank(ln)
            /\ line' = ln
            /\ pc' = "loop_top"
            /\ NoCall(<<<<ValidationMessage>>>>)
            /\ UNCHANGED <<DEFAULT_FIELDS, DEFAULT_LIMIT, fields, limit>>

\* Any other line: search and print the result.
MainSearch ==
    /\ pc = "prompt"
    /\ \E ln \in Lines :
            /\ ~is_quit(ln)
            /\ ~is_blank(ln)
            /\ \E h \in HttpOutcomes :
                LET r == get_user_search_results(ln, h, DEFAULT_FIELDS, DEFAULT_LIMIT)
                IN  /\ line' = ln
                    /\ op' = "get_user_search_results"
                    /\ search_term' = ln
                    /\ http' = h
                    /\ raised' = r.raised
                    /\ ret' = r.ret
                    /\ sent' = r.sent
                    /\ IF r.raised = ""
                       THEN /\ stdout' = r.stdout \o <<<<"\nSearch Result:">>, r.ret>>
                            /\ pc' = "loop_top"
                       ELSE /\ stdout' = r.stdout
                            /\ pc' = r.raised
                    /\ UNCHANGED <<DEFAULT_FIELDS, DEFAULT_LIMIT, fields, limit>>

\* input() at the end of standard input: EOFError leaves the script.
MainEOF ==
    /\ pc = "prompt"
    /\ pc' = "EOFError"
    /\ op' = ""
    /\ search_term' = <<>>
    /\ http' = NoHttp
    /\ Returns(Result("EOFError", <<>>, <<>>, <<>>))
    /\ UNCHANGED <<DEFAULT_FIELDS, DEFAULT_LIMIT, fields, limit, line>>

NextMain ==
    \/ MainStart
    \/ MainPrompt
    \/ MainQuit
    \/ MainBlank
    \/ MainSearch
    \/ MainEOF

SpecMain == InitMain /\ [][NextMain]_vars

\* ------------------------------------------------------------ claims
\* Reading a URL back: the text after "?title=", after "&fields=" and after
\* "&limit=", and the integer a decimal numeral writes.
IndexOf(u, x) == CHOOSE i \in 1 .. Len(u) : u[i] = x /\ \A j \in 1 .. (i - 1) : u[j] # x
TitleParam(u) == SubSeq(u, 3, IndexOf(u, "&fields=") - 1)
FieldsParam(u) == SubSeq(u, IndexOf(u, "&fields=") + 1, IndexOf(u, "&limit=") - 1)
LimitParam(u) == SubSeq(u, IndexOf(u, "&limit=") + 1, Len(u))
DigitValue(c) == CHOOSE d \in 0 .. 9 : Digit[d + 1] = c
RECURSIVE ParseNat(_)
ParseNat(s) ==
    IF s = <<>> THEN 0
    ELSE 10 * ParseNat(SubSeq(s, 1, Len(s) - 1)) + DigitValue(s[Len(s)])
ParseInt(s) == IF Head(s) = "-" THEN 0 - ParseNat(Tail(s)) ELSE ParseNat(s)

Returned(o) == pc = "returned" /\ op = o
PublicOps == {"get_search_results", "get_search_results_json", "get_user_search_results"}
TransportFailure ==
    \/ http.error \in {"ConnectionError", "Timeout"}
    \/ http.error = "" /\ http.status \in 400 .. 599
DefaultFieldsParam == <<"title", ",", "author_name">>

\* C1: every public operation returns a value for every input and every
\* outcome of the HTTP call; no exception leaves it.
C1_PublicOperationsTotal ==
    (pc = "returned" /\ op \in PublicOps) => raised = ""

\* C2: when the GET fails at transport level (connection error, timeout,
\* 4xx or 5xx status), get_search_results returns b'' and
\* get_search_results_json returns {}, and neither raises.
C2_TransportFailureDegrades ==
    (pc = "returned" /\ sent # <<>> /\ TransportFailure) =>
        /\ raised = ""
        /\ op = "get_search_results" => ret = EmptyBytes
        /\ op = "get_search_results_json" => ret = EmptyDict

C2_Witness ==
    /\ Returned("get_search_results_json")
    /\ http.status = 404
    /\ http.body = SampleBody
    /\ ret = EmptyDict
    /\ raised = ""

\* C3: when the GET succeeds with status 200 and the body is not valid
\* JSON, get_search_results_json returns {} and does not raise.
C3_DecodeFailureDegrades ==
    (/\ Returned("get_search_results_json")
     /\ sent # <<>>
     /\ http.error = ""
     /\ http.status = 200
     /\ http.body.text # "json") =>
        raised = "" /\ ret = EmptyDict

C3_Witness ==
    /\ Returned("get_search_results_json")
    /\ sent # <<>>
    /\ http.status = 200
    /\ http.body = Garbage
    /\ fields.given
    /\ ret = EmptyDict

\* C4: the title parameter of the URL _build_url returns is the title with
\* every space replaced by "+" and every other character verbatim; a title
\* without spaces is unchanged, and the parameter holds no whitespace when
\* the title's only whitespace is spaces.
C4_TitleSpacesToPlus ==
    (Returned("_build_url") /\ raised = "") =>
        LET p == TitleParam(ret)
            T == search_term
        IN  /\ Len(p) = Len(T)
            /\ \A i \in 1 .. Len(T) : p[i] = IF T[i] = " " THEN "+" ELSE T[i]
            /\ (\A i \in 1 .. Len(T) : T[i] # " ") => p = T
            /\ (\A i \in 1 .. Len(T) : T[i] \in Whitespace => T[i] = " ")
                   => \A i \in 1 .. Len(p) : p[i] \notin Whitespace

C4_Witness ==
    /\ Returned("_build_url")
    /\ search_term = <<" ", " ">>
    /\ raised = ""
    /\ TitleParam(ret) = <<"+", "+">>

\* C5: without explicit fields the fields parameter is "title,author_name",
\* without an explicit limit the limit parameter is "1"; with neither the
\* URL is BASE_URL?title=<title>&fields=title,author_name&limit=1, on every
\* call: no operation changes the class-level defaults.
C5_DefaultFieldsAndLimit ==
    /\ DEFAULT_FIELDS = <<"title", "author_name">>
    /\ DEFAULT_LIMIT = 1
    /\ (Returned("_build_url") /\ raised = "") =>
        /\ ~fields.given => FieldsParam(ret) = DefaultFieldsParam
        /\ ~limit.given => LimitParam(ret) = <<"1">>
        /\ (~fields.given /\ ~limit.given) =>
               ret = <<"https://openlibrary.org/search.json", "?title=">>
                         \o TitleParam(ret)
                         \o <<"&fields=", "title", ",", "author_name", "&limit=", "1">>

C5_Witness ==
    /\ Returned("_build_url")
    /\ ~fields.given
    /\ ~limit.given
    /\ search_term = <<"a", " ">>
    /\ Len(ret) = 10

\* C6: when the decoded mapping has an empty 'docs' or no 'docs' at all
\* (the {} of a failed request included), get_user_search_results returns
\* "No results found.".
C6_NoResults ==
    (/\ Returned("get_user_search_results")
     /\ \/ TransportFailure
        \/ http.status = 200 /\ http.body.text # "json"
        \/ /\ http.error = ""
           /\ http.status = 200
           /\ http.body.text = "json"
           /\ http.body.json.kind = "dict"
           /\ (~http.body.json.has_docs \/ http.body.json.docs = <<>>)) =>
        raised = "" /\ ret = <<"No results found.">>

C6_Witness ==
    /\ Returned("get_user_search_results")
    /\ http.status = 200
    /\ http.body.text = "json"
    /\ http.body.json.has_docs
    /\ http.body.json.docs = <<>>
    /\ ret = <<"No results found.">>

\* The first document of a response that decodes to a mapping with a
\* non-empty 'docs' whose elements are all documents.
HasDocuments ==
    /\ Returned("get_user_search_results")
    /\ http.error = ""
    /\ http.status = 200
    /\ http.body.text = "json"
    /\ http.body.json.kind = "dict"
    /\ http.body.json.has_docs
    /\ http.body.json.docs # <<>>
    /\ \A i \in 1 .. Len(http.body.json.docs) : http.body.json.docs[i].kind = "dict"
FirstDoc == http.body.json.docs[1]
TitleAndAuthor ==
    /\ raised = ""
    /\ Len(ret) = 4
    /\ ret[1] = "Title: "
    /\ ret[2] = IF FirstDoc.has_title THEN FirstDoc.title ELSE "Unknown Title"
    /\ ret[3] = "\nAuthor: "
    /\ ~FirstDoc.has_author_name => ret[4] = "Unknown Author"
    /\ (FirstDoc.has_author_name /\ FirstDoc.author_name # <<>>)
           => ret[4] = FirstDoc.author_name[1]

\* C7 as stated: for any non-empty 'docs' of documents the result is
\* "Title: <t>\nAuthor: <a>" built from the first document alone.
C7_Original == HasDocuments => TitleAndAuthor

\* C7 as amended: the same, for a first document whose 'author_name' is
\* absent or non-empty.
C7_FirstResultFormatted ==
    (HasDocuments /\ (FirstDoc.has_author_name => FirstDoc.author_name # <<>>))
        => TitleAndAuthor

C7_Witness ==
    /\ HasDocuments
    /\ Len(http.body.json.docs) = 2
    /\ FirstDoc = Document(TRUE, "Dune", TRUE, <<"Frank Herbert", "Other">>)
    /\ ret = <<"Title: ", "Dune", "\nAuthor: ", "Frank Herbert">>

\* C9: with a non-empty 'docs' whose first document is no mapping, or has
\* 'author_name' present and empty, get_user_search_results returns the
\* generic error string and does not raise.
C9_ExtractionErrorString ==
    (/\ Returned("get_user_search_results")
     /\ http.error = ""
     /\ http.status = 200
     /\ http.body.text = "json"
     /\ http.body.json.kind = "dict"
     /\ http.body.json.has_docs
     /\ http.body.json.docs # <<>>
     /\ \/ FirstDoc.kind # "dict"
        \/ FirstDoc.has_author_name /\ FirstDoc.author_name = <<>>) =>
        /\ raised = ""
        /\ ret = <<"An error occurred while processing your request.">>
        /\ ret # <<"No results found.">>
        /\ ret[1] # "Title: "

C9_Witness ==
    /\ Returned("get_user_search_results")
    /\ http.status = 200
    /\ http.body.text = "json"
    /\ http.body.json.docs = <<Document(TRUE, "Dune", TRUE, <<>>)>>
    /\ ret = <<"An error occurred while processing your request.">>

\* C10: an explicit empty fields list yields fields=title,author_name and
\* an explicit limit of 0 yields limit=1; a non-empty fields list of
\* strings is joined by "," in order and a non-zero limit is written as
\* given, in _build_url and in the URL get_search_results_json requests.
AllStr(f) == \A i \in 1 .. Len(f) : f[i] # "<not a str>"
UrlBuilt ==
    IF op = "_build_url" THEN ret ELSE sent[1]
C10_FalsyArgumentsDefault ==
    (/\ pc = "returned"
     /\ op \in {"_build_url", "get_search_results_json"}
     /\ (~fields.given \/ AllStr(fields.val))) =>
        /\ raised = ""
        /\ op = "get_search_results_json" => Len(sent) = 1
        /\ LET u == UrlBuilt
               fp == FieldsParam(u)
               lp == LimitParam(u)
               f == fields.val
           IN  /\ (fields.given /\ f = <<>>) => fp = DefaultFieldsParam
               /\ (limit.given /\ limit.val = 0) => lp = <<"1">>
               /\ (fields.given /\ f # <<>>) =>
                      /\ Len(fp) = 2 * Len(f) - 1
                      /\ \A i \in 1 .. Len(f) : fp[2 * i - 1] = f[i]
                      /\ \A i \in 1 .. (Len(f) - 1) : fp[2 * i] = ","
               /\ (limit.given /\ limit.val # 0) =>
                      /\ ParseInt(lp) = limit.val
                      /\ lp[1] # "0"
                      /\ lp[1] = "-" <=> limit.val < 0

C10_Witness ==
    /\ Returned("get_search_results_json")
    /\ fields = [given |-> TRUE, val |-> <<>>]
    /\ limit = [given |-> TRUE, val |-> 0]
    /\ Len(sent) = 1
    /\ FieldsParam(sent[1]) = DefaultFieldsParam
    /\ LimitParam(sent[1]) = <<"1">>

\* C8: in the script a line equal to "quit" in any letter case ends the
\* loop with no request; an empty or whitespace-only line prints the
\* validation message, makes no request and prompts again; any other line
\* makes exactly one call of get_user_search_results and prints its result
\* before the next prompt; the loop ends only at a "quit" line.
LineRead == pc \in {"loop_top", "done"}
IsQuitWord == line \in QuitCases
IsBlankLine == \A i \in 1 .. Len(line) : line[i] \in {" ", "\t"}
====
